---- MODULE Spec2Model ----
(***************************************************************************)
(* State-machine model of the routing and dispatch core of the server      *)
(* (packages/core/src): Route / HttpRoute / WsRoute, the Response adapter, *)
(* the two-stage request dispatch with its 404/405/204 terminal default,   *)
(* and the WebSocket upgrade decision.                                     *)
(***************************************************************************)
EXTENDS Integers, Sequences, FiniteSets, TLC

VARIABLES
  routes,       \* every HttpRoute constructed so far, by id: [method, path]
  httpRoutes,   \* server.httpRoutes: ids in registration order
  routeHooks,   \* listeners of 'server/__route': ids in registration order
  pc,           \* position of the dispatch of the current request
  req,          \* the Request: [method, url]
  res,          \* the Response: [status, hasStatus, body, bodyUsed, legacyMode, allow]
  transport,    \* the ServerResponse: [heads, ends, status, body, allow]
  reqIdx,       \* index of the next 'server/request' listener of this dispatch
  routeSnap,    \* the 'server/__route' listeners this dispatch iterates
  routeIdx,     \* index of the next 'server/__route' listener of this dispatch
  entered,      \* TRUE once the route-matching listener has started its waterfall
  response,     \* what the 'server/__route' waterfall returned
  ops,          \* number of Response assignments made by handlers in this dispatch
  log,          \* history of the dispatch: what ran, in order
  last,         \* history: the latest Response.body assignment and its outcome
  disposed,     \* history: the HttpRoutes whose dispose has completed
  disposedAtStart, \* history: the routes already disposed when the request arrived
  view,         \* the object the middleware of the route was called with
  wsReg,        \* every WsRoute constructed so far, by id: [path, handle]
  wsRoutes,     \* server.wsRoutes: ids in registration order
  wsPc,         \* position of the upgrade in flight
  wsUrl,        \* url of the upgrade request
  wsTask,       \* per WsRoute, where its accept callback stands for this upgrade
  decision,     \* the promise shouldHandle returned: pending, handle or refuse
  socket,       \* the socket of the upgrade: none, open, closed (refused) or ended
  clients,      \* per WsRoute, route.clients: a set of sockets
  wsReq,        \* the Request shouldHandle wrapped the upgrade request in
  wsView,       \* per WsRoute, the object its handle was called with
  config,       \* server.config: [host, port, maxPort], maxPort 0 when absent
  free,         \* the ports of the machine that can be bound
  startPc,      \* position of the Server in its life: created, binding, ...
  host,         \* server.host
  port,         \* server.port, 0 while unset
  listening,    \* the port _http.listen was called with, 0 while it was not
  ready         \* TRUE once 'server/ready' has been emitted

httpVars == <<routes, httpRoutes, routeHooks, pc, req, res, transport, reqIdx,
              routeSnap, routeIdx, entered, response, ops, log, last, disposed,
              disposedAtStart, view>>
wsVars == <<wsReg, wsRoutes, wsPc, wsUrl, wsTask, decision, socket, clients,
            wsReq, wsView>>
srvVars == <<config, free, startPc, host, port, listening, ready>>
vars == <<httpVars, wsVars, srvVars>>

(***************************************************************************)
(* Bounds of the model.                                                    *)
(***************************************************************************)
MaxRoutes == 2      \* HttpRoutes constructed in one behaviour
MaxOps == 2         \* Response assignments by handlers in one dispatch
MaxWsRoutes == 3    \* WsRoutes constructed in one behaviour

NULL == "null"      \* null / undefined

(***************************************************************************)
(* Requests.  A url is the request target as node hands it over: the path, *)
(* then possibly "?" and a query.  It is a sequence of one-character       *)
(* strings.                                                                *)
(***************************************************************************)
Methods == {"GET", "POST"}
ALL == "ALL"
ReqMethods == {"GET", "OPTIONS"}
Urls == { <<"/", "x">>, <<"/", "y">>, <<"/", "x", "?", "/", "y">> }

(***************************************************************************)
(* Route patterns.  pathToRegexp turns a string path into a regexp and its *)
(* keys; a token is a literal character or a :name parameter ([^/]+).     *)
(* The regexp is anchored at both ends and allows one trailing "/".        *)
(***************************************************************************)
Lit(c) == [t |-> "lit", c |-> c]
Param(n) == [t |-> "param", c |-> n]

Paths == {"/x", "/:a/:b"}

pathToRegexp(path) ==
  CASE path = "/x" -> <<Lit("/"), Lit("x")>>
    [] path = "/:a" -> <<Lit("/"), Param("a")>>
    [] path = "/:a/:b" -> <<Lit("/"), Param("a"), Lit("/"), Param("b")>>

\* the RegExp objects a caller hands over as the path: /^\/x\/?$/g
RegExps == {"/^\\/x\\/?$/g"}

\* Route.constructor: this.regexp, compiled from a string path or the RegExp
\* the caller handed over
regexp(path) ==
  IF path \in RegExps THEN <<Lit("/"), Lit("x")>> ELSE pathToRegexp(path)

\* RegExp.prototype.global of this.regexp: pathToRegexp sets no g flag
global(path) == path \in RegExps

NoCapture == [ok |-> FALSE, cap |-> <<>>]

NoSlash(s) == \A k \in 1..Len(s) : s[k] # "/"

RECURSIVE exec(_, _, _, _)
RECURSIVE execGroup(_, _, _, _, _)
\* RegExp.exec: the tokens from i on against the text from j on; the captures
\* of the leftmost-greedy match, or NoCapture
exec(tokens, text, i, j) ==
  IF i > Len(tokens)
  THEN IF j > Len(text) \/ (j = Len(text) /\ text[j] = "/")
       THEN [ok |-> TRUE, cap |-> <<>>]
       ELSE NoCapture
  ELSE IF tokens[i].t = "lit"
       THEN IF j <= Len(text) /\ text[j] = tokens[i].c
            THEN exec(tokens, text, i + 1, j + 1)
            ELSE NoCapture
       ELSE execGroup(tokens, text, i, j, Len(text) - j + 1)

\* a capturing group taking k characters, then fewer (greedy with backtracking)
execGroup(tokens, text, i, j, k) ==
  IF k < 1 THEN NoCapture
  ELSE LET piece == SubSeq(text, j, j + k - 1)
           rest == exec(tokens, text, i + 1, j + k)
       IN IF NoSlash(piece) /\ rest.ok
          THEN [ok |-> TRUE, cap |-> <<piece>> \o rest.cap]
          ELSE execGroup(tokens, text, i, j, k - 1)

\* decodeURIComponent(s.replace(/\+/g, ' '))
decode(s) == [k \in 1..Len(s) |-> IF s[k] = "+" THEN " " ELSE s[k]]

\* Route.constructor: this.keys, absent (none) for a RegExp path
keys(path) ==
  IF path \in RegExps THEN <<>>
  ELSE SelectSeq(pathToRegexp(path), LAMBDA tk : tk.t # "lit")

\* the text Route.check hands to the regexp
checkText(url) == url

\* Route.check with the regexp at lastIndex 0: undefined (ok = FALSE) or the
\* params
check(path, url) ==
  LET capture == exec(regexp(path), checkText(url), 1, 1)
  IN IF ~capture.ok THEN [ok |-> FALSE, params |-> <<>>]
     ELSE [ok |-> TRUE,
           params |-> [k \in 1..Len(capture.cap) |->
                         <<keys(path)[k].c, decode(capture.cap[k])>>]]

\* Route.check on the route as it stands.  exec of a regexp with the g flag
\* starts at lastIndex, where the anchored pattern matches only if it is 0,
\* and leaves the end of the match there, or 0 when there is none
checkAt(route, url) ==
  LET m == check(route.path, url)
  IN IF ~global(route.path)
     THEN [ok |-> m.ok, params |-> m.params, lastIndex |-> route.lastIndex]
     ELSE IF route.lastIndex = 0 /\ m.ok
          THEN [ok |-> TRUE, params |-> m.params, lastIndex |-> Len(checkText(url))]
          ELSE [ok |-> FALSE, params |-> <<>>, lastIndex |-> 0]

\* decodeURIComponent throws a URIError on a "%" that two hexadecimal digits
\* do not follow; no character of the urls of the model is such a digit
malformed(s) == \E k \in 1..Len(s) : s[k] = "%"

\* does Route.check throw: the regexp matched and a parameter cannot be decoded
checkThrows(path, url) ==
  LET capture == exec(regexp(path), checkText(url), 1, 1)
  IN /\ capture.ok
     /\ Len(keys(path)) > 0
     /\ \E k \in 1..Len(capture.cap) : malformed(capture.cap[k])

NoView == [method |-> NULL, url |-> <<>>, params |-> <<>>]

\* an overlay that writes the params on the Request itself
overlayAssign(request, params) ==
  LET seen == [method |-> request.method, url |-> request.url, params |-> params]
  IN [request |-> seen, view |-> seen]

\* Object.assign(Object.create(req), { params }): the Request as it is left and
\* what the new object shows, its own params and the rest through its prototype
overlay(request, params) ==
  [request |-> request,
   view |-> [method |-> request.method, url |-> request.url, params |-> params]]

(***************************************************************************)
(* Response (body.ts).  status is the statusCode of the wrapped            *)
(* ServerResponse; headers holds the two headers the core and the plugins  *)
(* set.                                                                    *)
(***************************************************************************)
NoHeaders == [allow |-> NULL, location |-> NULL]

Response == [status |-> 404, hasStatus |-> FALSE, body |-> NULL,
             bodyUsed |-> FALSE, legacyMode |-> FALSE, headers |-> NoHeaders]

\* the ServerResponse before anything was written to it
Transport == [heads |-> 0, ends |-> 0, status |-> 0, body |-> NULL,
              headers |-> NoHeaders, destroyed |-> FALSE]

\* a status written to the ServerResponse without marking it assigned
setStatusRaw(r, value) == [r EXCEPT !.status = value]

\* set status
setStatus(r, value) == [r EXCEPT !.status = value, !.hasStatus = TRUE]

\* set body that refuses a second body
bodyThrowsIfSet(r) == r.bodyUsed \/ r.body # NULL

\* set body throws TypeError('Body already used')
bodyThrows(r) == r.bodyUsed

\* set body that promotes the status whatever was assigned before
setBodyPromotes(r, value) ==
  [r EXCEPT !.body = value, !.status = IF value # NULL THEN 200 ELSE @]

\* set body, when it does not throw
setBody(r, value) ==
  [r EXCEPT !.body = value,
            !.status = IF value # NULL /\ ~r.hasStatus THEN 200 ELSE @]

\* _end that forgets to mark the body used
endResponseUnused(r) == r

\* Response._end: what it leaves in the Response
endResponse(r) ==
  IF r.legacyMode \/ r.body = NULL THEN r ELSE [r EXCEPT !.bodyUsed = TRUE]

\* _end that writes although legacyMode is set
endTransportAlways(r, t) ==
  [heads |-> t.heads + 1, ends |-> t.ends + 1, status |-> r.status,
   body |-> r.body, headers |-> r.headers, destroyed |-> t.destroyed]

\* Response._end: what it does to the ServerResponse: writeHead, then end or
\* pipe; a writeHead after the head was sent is one more call, which throws
\* before end or pipe
endTransport(r, t) ==
  IF r.legacyMode THEN t
  ELSE IF t.heads > 0 THEN [t EXCEPT !.heads = @ + 1]
  ELSE [heads |-> t.heads + 1, ends |-> t.ends + 1, status |-> r.status,
        body |-> r.body, headers |-> r.headers, destroyed |-> t.destroyed]

Bodies == {"b1", "b2"}
HandlerStatuses == {500}   \* the statuses a handler assigns

\* the responses a route middleware returns (static plugin: a file, a redirect, Not Found)
Returned ==
  { [status |-> 200, body |-> "file", headers |-> NoHeaders],
    [status |-> 301, body |-> NULL, headers |-> [allow |-> NULL, location |-> "/x/"]],
    [status |-> 404, body |-> NULL, headers |-> NoHeaders] }

\* the waterfall returned undefined (no Response has status 0)
Void == [status |-> 0, body |-> NULL, headers |-> NoHeaders]

\* a copy that leaves the headers of the returned response behind
copyHeadersNone(h, from) == h

\* for (const [key, value] of response.headers) res.headers.set(key, value)
copyHeaders(h, from) ==
  [k \in DOMAIN h |-> IF from[k] # NULL THEN from[k] ELSE h[k]]

(***************************************************************************)
(* The terminal default of the 'server/__route' waterfall.                 *)
(***************************************************************************)
Range(s) == {s[k] : k \in 1..Len(s)}

\* Set.add on an insertion-ordered Set
add(methods, m) == IF m \in Range(methods) THEN methods ELSE Append(methods, m)

RECURSIVE scan(_, _, _, _, _)
\* the loop over this.httpRoutes: [methods, asterisk], and the routes as the
\* checks of the loop leave them
scan(rs, list, url, i, methods) ==
  IF i > Len(list) THEN [methods |-> methods, asterisk |-> FALSE, routes |-> rs]
  ELSE LET m == checkAt(rs[list[i]], url)
           after == [rs EXCEPT ![list[i]].lastIndex = m.lastIndex]
       IN IF ~m.ok THEN scan(after, list, url, i + 1, methods)
          ELSE IF rs[list[i]].method # ALL
               THEN scan(after, list, url, i + 1, add(methods, rs[list[i]].method))
               ELSE [methods |-> methods, asterisk |-> TRUE, routes |-> after]

RECURSIVE join(_)
\* [...methods].join(', ')
join(methods) ==
  IF Len(methods) = 0 THEN ""
  ELSE IF Len(methods) = 1 THEN methods[1]
  ELSE methods[1] \o ", " \o join(Tail(methods))

\* a default that leaves the Response alone when a route of the request's own
\* method matched
negotiateOwnMethod(r, rs, list, request) ==
  LET found == scan(rs, list, request.url, 1, <<>>)
  IN IF Len(found.methods) = 0 /\ ~found.asterisk
     THEN setStatus(r, 404)
     ELSE IF request.method = "OPTIONS"
          THEN [setStatus(r, 204) EXCEPT
                  !.headers.allow = IF found.asterisk THEN "*" ELSE join(found.methods)]
          ELSE IF request.method \in Range(found.methods) THEN r
               ELSE setStatus(r, 405)

\* the status and Allow header the terminal default assigns
negotiate(r, rs, list, request) ==
  LET found == scan(rs, list, request.url, 1, <<>>)
  IN IF Len(found.methods) = 0 /\ ~found.asterisk
     THEN setStatus(r, 404)
     ELSE IF request.method = "OPTIONS"
          THEN [setStatus(r, 204) EXCEPT
                  !.headers.allow = IF found.asterisk THEN "*" ELSE join(found.methods)]
          ELSE setStatus(r, 405)

(***************************************************************************)
(* Registration and disposal of HttpRoutes.                                *)
(***************************************************************************)
\* a removal that fills the hole with the last entry
removeSwap(list, id) ==
  LET n == Len(list)
      k == CHOOSE i \in 1..n : list[i] = id
  IN [i \in 1..(n - 1) |-> IF i = k THEN list[n] ELSE list[i]]

\* DisposableList: the disposer of push takes the entry out of the list
remove(list, id) == SelectSeq(list, LAMBDA x : x # id)

\* plugin code registers and disposes routes between requests and while a
\* dispatch is suspended inside a route middleware
Suspended == pc \in {"idle", "middleware"}

\* an effect that pushes the route on the list and registers no listener
HttpRouteListOnly(method, path) ==
  /\ Suspended
  /\ Len(routes) < MaxRoutes
  /\ routes' = Append(routes, [method |-> method, path |-> path, lastIndex |-> 0])
  /\ httpRoutes' = Append(httpRoutes, Len(routes) + 1)
  /\ UNCHANGED <<routeHooks, pc, req, res, transport, reqIdx, routeSnap, routeIdx,
                 entered, response, ops, log, last, disposed, disposedAtStart, view, wsVars, srvVars>>

\* an effect that registers its listener in front of the earlier ones
HttpRoutePrepend(method, path) ==
  /\ Suspended
  /\ Len(routes) < MaxRoutes
  /\ routes' = Append(routes, [method |-> method, path |-> path, lastIndex |-> 0])
  /\ httpRoutes' = Append(httpRoutes, Len(routes) + 1)
  /\ routeHooks' = <<Len(routes) + 1>> \o routeHooks
  /\ UNCHANGED <<pc, req, res, transport, reqIdx, routeSnap, routeIdx, entered,
                 response, ops, log, last, disposed, disposedAtStart, view, wsVars, srvVars>>

\* new HttpRoute(server, method, path, callback): the effect pushes the route
\* on server.httpRoutes and registers its 'server/__route' listener
HttpRoute(method, path) ==
  /\ Suspended
  /\ Len(routes) < MaxRoutes
  /\ routes' = Append(routes, [method |-> method, path |-> path, lastIndex |-> 0])
  /\ httpRoutes' = Append(httpRoutes, Len(routes) + 1)
  /\ routeHooks' = Append(routeHooks, Len(routes) + 1)
  /\ UNCHANGED <<pc, req, res, transport, reqIdx, routeSnap, routeIdx, entered,
                 response, ops, log, last, disposed, disposedAtStart, view, wsVars, srvVars>>

\* dispose that takes the route off the list and leaves its listener registered
disposeListOnly(id) ==
  /\ Suspended
  /\ id \in Range(httpRoutes)
  /\ httpRoutes' = remove(httpRoutes, id)
  /\ disposed' = disposed \cup {id}
  /\ UNCHANGED <<routes, routeHooks, pc, req, res, transport, reqIdx, routeSnap,
                 routeIdx, entered, response, ops, log, last, disposedAtStart, view, wsVars, srvVars>>

\* route.dispose(): releases what the effect yielded
dispose(id) ==
  /\ Suspended
  /\ id \in Range(httpRoutes)
  /\ httpRoutes' = remove(httpRoutes, id)
  /\ routeHooks' = remove(routeHooks, id)
  /\ disposed' = disposed \cup {id}
  /\ UNCHANGED <<routes, pc, req, res, transport, reqIdx, routeSnap, routeIdx,
                 entered, response, ops, log, last, disposedAtStart, view, wsVars, srvVars>>

(***************************************************************************)
(* Dispatch of one request.                                                *)
(***************************************************************************)
\* the listeners of 'server/request' in registration order: the route-matching
\* listener of the Server and the listeners plugins put before and after it
reqHooks == <<"pre", "router", "post">>

NoRequest == [method |-> NULL, url |-> <<>>]
NoLast == [value |-> NULL, threw |-> FALSE, late |-> FALSE, pre |-> Response,
           post |-> Response, n |-> 0, at |-> 0]
Assigned(value, threw, late, pre, post) ==
  [value |-> value, threw |-> threw, late |-> late, pre |-> pre, post |-> post,
   n |-> last.n + 1, at |-> Len(log)]
Ev(e, r) == [e |-> e, r |-> r]

\* where control goes when the 'server/request' waterfall returns to its callers
Unwind == IF entered THEN "copy" ELSE "end"

\* _http.on('request'): wraps the connection and starts the 'server/request' waterfall
Incoming(method, url) ==
  /\ pc = "idle"
  /\ req' = [method |-> method, url |-> url]
  /\ res' = Response
  /\ transport' = Transport
  /\ reqIdx' = 1
  /\ routeSnap' = <<>>
  /\ routeIdx' = 1
  /\ entered' = FALSE
  /\ response' = Void
  /\ ops' = 0
  /\ log' = <<>>
  /\ last' = NoLast
  /\ disposedAtStart' = disposed
  /\ view' = NoView
  /\ pc' = "request"
  /\ UNCHANGED <<routes, httpRoutes, routeHooks, disposed, wsVars, srvVars>>

\* the waterfall calls the next 'server/request' listener, or its final callback
RequestNext ==
  /\ pc = "request"
  /\ IF reqIdx > Len(reqHooks)
     THEN /\ pc' = Unwind
          /\ UNCHANGED <<routeSnap, routeIdx, entered, log>>
     ELSE IF reqHooks[reqIdx] = "router"
          THEN /\ pc' = "route"
               /\ routeSnap' = routeHooks
               /\ routeIdx' = 1
               /\ entered' = TRUE
               /\ UNCHANGED log
          ELSE /\ pc' = "handler"
               /\ log' = Append(log, Ev(reqHooks[reqIdx], 0))
               /\ UNCHANGED <<routeSnap, routeIdx, entered>>
  /\ UNCHANGED <<routes, httpRoutes, routeHooks, req, res, transport, reqIdx,
                 response, ops, last, disposed, disposedAtStart, view, wsVars, srvVars>>

\* a running handler (request-stage listener or route middleware) assigns res.status
AssignStatus(value) ==
  /\ pc \in {"handler", "middleware"}
  /\ ops < MaxOps
  /\ ops' = ops + 1
  /\ res' = setStatus(res, value)
  /\ UNCHANGED <<routes, httpRoutes, routeHooks, pc, req, transport, reqIdx,
                 routeSnap, routeIdx, entered, response, log, last, disposed, disposedAtStart, view, wsVars, srvVars>>

\* a running handler assigns res.body; after the flush, code that kept the
\* Response assigns it late
AssignBody(value) ==
  /\ pc \in {"handler", "middleware", "done"}
  /\ ops < MaxOps
  /\ ops' = ops + 1
  /\ IF bodyThrows(res)
     THEN /\ last' = Assigned(value, TRUE, pc = "done", res, res)
          /\ pc' = IF pc = "done" THEN "done" ELSE "thrown"
          /\ UNCHANGED res
     ELSE /\ last' = Assigned(value, FALSE, pc = "done", res, setBody(res, value))
          /\ res' = setBody(res, value)
          /\ UNCHANGED pc
  /\ UNCHANGED <<routes, httpRoutes, routeHooks, req, transport, reqIdx,
                 routeSnap, routeIdx, entered, response, log, disposed, disposedAtStart, view, wsVars, srvVars>>

\* a running handler sets res.legacyMode
AssignLegacy ==
  /\ pc \in {"handler", "middleware"}
  /\ ops < MaxOps
  /\ ~res.legacyMode
  /\ ops' = ops + 1
  /\ res' = [res EXCEPT !.legacyMode = TRUE]
  /\ UNCHANGED <<routes, httpRoutes, routeHooks, pc, req, transport, reqIdx,
                 routeSnap, routeIdx, entered, response, log, last, disposed, disposedAtStart, view, wsVars, srvVars>>

\* a request-stage listener calls next()
HandlerNext ==
  /\ pc = "handler"
  /\ reqIdx' = reqIdx + 1
  /\ pc' = "request"
  /\ UNCHANGED <<routes, httpRoutes, routeHooks, req, res, transport, routeSnap,
                 routeIdx, entered, response, ops, log, last, disposed, disposedAtStart, view, wsVars, srvVars>>

\* a request-stage listener returns without calling next()
HandlerReturn ==
  /\ pc = "handler"
  /\ pc' = Unwind
  /\ log' = Append(log, Ev("short", 0))
  /\ UNCHANGED <<routes, httpRoutes, routeHooks, req, res, transport, reqIdx,
                 routeSnap, routeIdx, entered, response, ops, last, disposed, disposedAtStart, view, wsVars, srvVars>>

\* a dispatch that catches the error of a handler and answers 500
HandlerThrowCaught ==
  /\ pc \in {"handler", "middleware"}
  /\ pc' = "end"
  /\ res' = setStatus(res, 500)
  /\ log' = Append(log, Ev("throw", 0))
  /\ UNCHANGED <<routes, httpRoutes, routeHooks, req, transport, reqIdx, routeSnap,
                 routeIdx, entered, response, ops, last, disposed, disposedAtStart, view, wsVars, srvVars>>

\* a 'request' listener that calls res._end() in a finally block
HandlerThrowFinally ==
  /\ pc \in {"handler", "middleware"}
  /\ pc' = "end"
  /\ log' = Append(log, Ev("throw", 0))
  /\ UNCHANGED <<routes, httpRoutes, routeHooks, req, res, transport, reqIdx, routeSnap,
                 routeIdx, entered, response, ops, last, disposed, disposedAtStart,
                 view, wsVars, srvVars>>

\* a request-stage listener or a route middleware throws
HandlerThrow ==
  /\ pc \in {"handler", "middleware"}
  /\ pc' = "thrown"
  /\ log' = Append(log, Ev("throw", 0))
  /\ UNCHANGED <<routes, httpRoutes, routeHooks, req, res, transport, reqIdx,
                 routeSnap, routeIdx, entered, response, ops, last, disposed, disposedAtStart, view, wsVars, srvVars>>

\* does the 'server/__route' listener of the route call its middleware
accepts(route, request) ==
  /\ route.method = ALL \/ request.method = route.method
  /\ checkAt(route, request.url).ok

\* the waterfall calls the next 'server/__route' listener: the one an HttpRoute
\* registered, which calls next() itself or calls the middleware
RouteNext ==
  /\ pc = "route"
  /\ routeIdx <= Len(routeSnap)
  /\ LET id == routeSnap[routeIdx]
         m == checkAt(routes[id], req.url)
         o == overlay(req, m.params)
     IN /\ routes' = IF routes[id].method = ALL \/ req.method = routes[id].method
                      THEN [routes EXCEPT ![id].lastIndex = m.lastIndex]
                      ELSE routes
        /\ IF accepts(routes[id], req)
           THEN /\ pc' = "middleware"
                /\ log' = Append(log, Ev("invoke", id))
                /\ req' = o.request
                /\ view' = o.view
                /\ UNCHANGED routeIdx
           ELSE /\ routeIdx' = routeIdx + 1
                /\ UNCHANGED <<pc, log, req, view>>
  /\ UNCHANGED <<httpRoutes, routeHooks, res, transport, reqIdx, routeSnap,
                 entered, response, ops, last, disposed, disposedAtStart,
                 wsVars, srvVars>>

\* the middleware returns next()
MiddlewareNext ==
  /\ pc = "middleware"
  /\ routeIdx' = routeIdx + 1
  /\ pc' = "route"
  /\ log' = Append(log, Ev("next", routeSnap[routeIdx]))
  /\ UNCHANGED <<routes, httpRoutes, routeHooks, req, res, transport, reqIdx,
                 routeSnap, entered, response, ops, last, disposed, disposedAtStart, view, wsVars, srvVars>>

\* a waterfall that goes on with the next listener after a middleware returned
MiddlewareReturnContinues(value) ==
  /\ pc = "middleware"
  /\ response' = value
  /\ routeIdx' = routeIdx + 1
  /\ pc' = "route"
  /\ log' = Append(log, Ev("return", routeSnap[routeIdx]))
  /\ UNCHANGED <<routes, httpRoutes, routeHooks, req, res, transport, reqIdx,
                 routeSnap, entered, ops, last, disposed, disposedAtStart, view, wsVars, srvVars>>

\* the middleware returns a response, or nothing, without calling next()
MiddlewareReturn(value) ==
  /\ pc = "middleware"
  /\ response' = value
  /\ pc' = "copy"
  /\ log' = Append(log, Ev("return", routeSnap[routeIdx]))
  /\ UNCHANGED <<routes, httpRoutes, routeHooks, req, res, transport, reqIdx,
                 routeSnap, routeIdx, entered, ops, last, disposed, disposedAtStart, view, wsVars, srvVars>>

\* the final callback of the 'server/__route' waterfall: assigns the negotiated
\* status and returns next(), the rest of the 'server/request' waterfall
TerminalDefault ==
  /\ pc = "route"
  /\ routeIdx > Len(routeSnap)
  /\ res' = negotiate(res, routes, httpRoutes, req)
  /\ routes' = scan(routes, httpRoutes, req.url, 1, <<>>).routes
  /\ log' = Append(log, Ev("default", 0))
  /\ reqIdx' = reqIdx + 1
  /\ pc' = "request"
  /\ UNCHANGED <<httpRoutes, routeHooks, req, transport, routeSnap,
                 routeIdx, entered, response, ops, last, disposed, disposedAtStart, view, wsVars, srvVars>>

\* the route-matching listener after its waterfall returned: copies a response
CopyResponse ==
  /\ pc = "copy"
  /\ IF response = Void
     THEN /\ pc' = "end"
          /\ UNCHANGED <<res, last>>
     ELSE IF bodyThrows(res)
          THEN /\ pc' = "thrown"
               /\ last' = Assigned(response.body, TRUE, FALSE, res, res)
               /\ UNCHANGED res
          ELSE /\ pc' = "end"
               /\ last' = Assigned(response.body, FALSE, FALSE, res,
                                   setBody(res, response.body))
               /\ res' = [setStatus(setBody(res, response.body), response.status)
                            EXCEPT !.headers = copyHeaders(@, response.headers)]
  /\ UNCHANGED <<routes, httpRoutes, routeHooks, req, transport, reqIdx, routeSnap,
                 routeIdx, entered, response, ops, log, disposed, disposedAtStart, view, wsVars, srvVars>>

\* the 'request' listener after the 'server/request' waterfall: res._end()
End ==
  /\ pc = "end"
  /\ transport' = endTransport(res, transport)
  /\ res' = endResponse(res)
  /\ pc' = "done"
  /\ log' = Append(log, Ev("end", 0))
  /\ UNCHANGED <<routes, httpRoutes, routeHooks, req, reqIdx, routeSnap, routeIdx,
                 entered, response, ops, last, disposed, disposedAtStart, view, wsVars, srvVars>>

\* code that kept the Response calls res._end() once more after the flush
EndAgain ==
  /\ pc = "done"
  /\ ops < MaxOps
  /\ ops' = ops + 1
  /\ transport' = endTransport(res, transport)
  /\ log' = Append(log, Ev("end", 0))
  /\ UNCHANGED <<routes, httpRoutes, routeHooks, pc, req, res, reqIdx, routeSnap,
                 routeIdx, entered, response, last, disposed, disposedAtStart,
                 view, wsVars, srvVars>>

\* the peer drops the connection while the dispatch is suspended in a handler:
\* the ServerResponse is destroyed; no listener of the server hears of it
ConnectionAbort ==
  /\ pc \in {"handler", "middleware"}
  /\ ~transport.destroyed
  /\ transport' = [transport EXCEPT !.destroyed = TRUE]
  /\ UNCHANGED <<routes, httpRoutes, routeHooks, pc, req, res, reqIdx, routeSnap,
                 routeIdx, entered, response, ops, log, last, disposed,
                 disposedAtStart, view, wsVars, srvVars>>

\* the Request and the Response are discarded once the dispatch is over
Discard ==
  /\ pc \in {"done", "thrown"}
  /\ pc' = "idle"
  /\ req' = NoRequest
  /\ res' = Response
  /\ transport' = Transport
  /\ reqIdx' = 1
  /\ routeSnap' = <<>>
  /\ routeIdx' = 1
  /\ entered' = FALSE
  /\ response' = Void
  /\ ops' = 0
  /\ log' = <<>>
  /\ last' = NoLast
  /\ disposedAtStart' = {}
  /\ view' = NoView
  /\ UNCHANGED <<routes, httpRoutes, routeHooks, disposed, wsVars, srvVars>>

(***************************************************************************)
(* WebSocket upgrades: WsRoute, _ws.shouldHandle and 'connection'.         *)
(* shouldHandle returns a promise; the WebSocketServer completes the       *)
(* upgrade when it resolves to true and aborts the handshake, closing the  *)
(* socket, when it resolves to false.  A settled promise stays settled.    *)
(***************************************************************************)
WsPaths == {"/x", "/:a/:b"}
WsUrls == { <<"/", "x">>, <<"/", "y">> }

\* new WsRoute(server, path, handle): the effect pushes the route on server.wsRoutes
WsRoute(path, handle) ==
  /\ Len(wsReg) < MaxWsRoutes
  /\ wsReg' = Append(wsReg, [path |-> path, handle |-> handle])
  /\ wsRoutes' = Append(wsRoutes, Len(wsReg) + 1)
  /\ wsTask' = Append(wsTask, "absent")
  /\ clients' = Append(clients, {})
  /\ UNCHANGED <<wsPc, wsUrl, decision, socket, wsReq, wsView, httpVars, srvVars>>

\* for (const socket of self.clients) socket.close()
closeAll(members, sock) ==
  IF sock = "open" /\ "socket" \in members THEN "ended" ELSE sock

\* route.dispose() of a WsRoute: releases what the effect yielded
wsDispose(id) ==
  /\ id \in Range(wsRoutes)
  /\ wsRoutes' = remove(wsRoutes, id)
  /\ socket' = closeAll(clients[id], socket)
  /\ UNCHANGED <<wsReg, wsPc, wsUrl, wsTask, decision, clients, wsReq, wsView, httpVars, srvVars>>

\* a promise that lets a later resolve overturn an earlier one
resolveAgain(d, value) == value

\* resolve(value) on the promise shouldHandle returned
resolve(d, value) == IF d = "pending" THEN value ELSE d

\* the async callback mapped over [...this.wsRoutes], up to its first await; a
\* check that throws rejects the callback's promise, and with it Promise.all
offer(route, url) ==
  IF checkThrows(route.path, url) THEN "failed"
  ELSE IF ~check(route.path, url).ok THEN "nomatch"
  ELSE IF ~route.handle THEN "waiting"
  ELSE "running"

\* has the callback of a route come to its end
Settled(task) == task \in {"absent", "nomatch", "declined", "threw", "accepted"}

RECURSIVE handOut(_, _, _, _)
\* the objects route.handle is called with, route by route of [...this.wsRoutes]:
\* the Request as the calls leave it and, by route, what its handle was given
handOut(reg, list, request, i) ==
  IF i > Len(list)
  THEN [request |-> request, views |-> [id \in 1..Len(reg) |-> NoView]]
  ELSE IF offer(reg[list[i]], request.url) # "running"
       THEN handOut(reg, list, request, i + 1)
       ELSE LET o == overlay(request, check(reg[list[i]].path, request.url).params)
            IN [handOut(reg, list, o.request, i + 1) EXCEPT !.views[list[i]] = o.view]

\* _ws.shouldHandle(_req): every route of the list is offered the request at once
shouldHandle(url) ==
  /\ wsPc = "idle"
  /\ wsUrl' = url
  /\ LET given == handOut(wsReg, wsRoutes, [method |-> "GET", url |-> url], 1)
     IN /\ wsReq' = given.request
        /\ wsView' = given.views
  /\ wsTask' = [id \in 1..Len(wsReg) |->
                  IF id \in Range(wsRoutes) THEN offer(wsReg[id], url) ELSE "absent"]
  /\ decision' = IF \E id \in Range(wsRoutes) : offer(wsReg[id], url) = "waiting"
                 THEN resolve("pending", "handle") ELSE "pending"
  /\ wsPc' = "offered"
  /\ UNCHANGED <<wsReg, wsRoutes, socket, clients, httpVars, srvVars>>

\* route.handle calls next(): factory resolves the decision and hands out the task
WsAccept(id) ==
  /\ wsPc \in {"offered", "resolved"}
  /\ id \in 1..Len(wsTask)
  /\ wsTask[id] = "running"
  /\ decision' = resolve(decision, "handle")
  /\ wsTask' = [wsTask EXCEPT
                  ![id] = IF socket \in {"open", "ended"} THEN "accepted" ELSE "waiting"]
  /\ UNCHANGED <<wsReg, wsRoutes, wsPc, wsUrl, socket, clients, wsReq, wsView, httpVars, srvVars>>

\* route.handle returns without having called next()
WsDecline(id) ==
  /\ wsPc \in {"offered", "resolved"}
  /\ id \in 1..Len(wsTask)
  /\ wsTask[id] = "running"
  /\ wsTask' = [wsTask EXCEPT ![id] = "declined"]
  /\ UNCHANGED <<wsReg, wsRoutes, wsPc, wsUrl, decision, socket, clients, wsReq, wsView, httpVars, srvVars>>

\* route.handle throws and nothing catches it: Promise.all rejects and the
\* rest of shouldHandle is skipped with the decision left as it is
WsThrowEscapes(id) ==
  /\ wsPc \in {"offered", "resolved"}
  /\ id \in 1..Len(wsTask)
  /\ wsTask[id] = "running"
  /\ wsTask' = [wsTask EXCEPT ![id] = "threw"]
  /\ wsPc' = "resolved"
  /\ UNCHANGED <<wsReg, wsRoutes, wsUrl, decision, socket, clients, wsReq, wsView, httpVars, srvVars>>

\* route.handle throws before calling next(): the error is logged
WsThrow(id) ==
  /\ wsPc \in {"offered", "resolved"}
  /\ id \in 1..Len(wsTask)
  /\ wsTask[id] = "running"
  /\ wsTask' = [wsTask EXCEPT ![id] = "threw"]
  /\ UNCHANGED <<wsReg, wsRoutes, wsPc, wsUrl, decision, socket, clients, wsReq, wsView, httpVars, srvVars>>

\* Promise.all has settled: resolve(false)
WsRefuse ==
  /\ wsPc = "offered"
  /\ \A id \in 1..Len(wsTask) : Settled(wsTask[id])
  /\ decision' = resolve(decision, "refuse")
  /\ wsPc' = "resolved"
  /\ UNCHANGED <<wsReg, wsRoutes, wsUrl, wsTask, socket, clients, wsReq, wsView, httpVars, srvVars>>

\* the decision is handle: the upgrade completes and 'connection' resolves the task
Connection ==
  /\ decision = "handle"
  /\ socket = "none"
  /\ socket' = "open"
  /\ wsTask' = [id \in 1..Len(wsTask) |->
                  IF wsTask[id] = "waiting" THEN "accepted" ELSE wsTask[id]]
  /\ UNCHANGED <<wsReg, wsRoutes, wsPc, wsUrl, decision, clients, wsReq, wsView, httpVars, srvVars>>

\* the decision is refuse: the handshake is aborted and the socket closed
Abort ==
  /\ decision = "refuse"
  /\ socket = "none"
  /\ socket' = "closed"
  /\ UNCHANGED <<wsReg, wsRoutes, wsPc, wsUrl, wsTask, decision, clients, wsReq, wsView, httpVars, srvVars>>

\* the peer closes an open socket: it emits 'close', which no listener of the
\* server is registered for
SocketClose ==
  /\ socket = "open"
  /\ socket' = "ended"
  /\ UNCHANGED <<wsReg, wsRoutes, wsPc, wsUrl, wsTask, decision, clients, wsReq, wsView, httpVars, srvVars>>

\* the upgrade is over; the next one may arrive
WsOver ==
  /\ wsPc = "resolved"
  /\ socket # "none"
  /\ wsPc' = "idle"
  /\ wsUrl' = <<>>
  /\ wsTask' = [id \in 1..Len(wsReg) |-> "absent"]
  /\ decision' = "pending"
  /\ socket' = "none"
  /\ wsReq' = NoRequest
  /\ wsView' = <<>>
  /\ UNCHANGED <<wsReg, wsRoutes, clients, httpVars, srvVars>>

(***************************************************************************)
(* The life of the Server: start, stop and selfUrl.  listen is the port     *)
(* allocator: it answers the lowest port from config.port up to            *)
(* config.maxPort (config.port alone without maxPort) that can be bound,   *)
(* or fails when there is none.                                            *)
(***************************************************************************)
Hosts == {"0.0.0.0", "::", "127.0.0.1", "example.com"}
PortSet == {80, 81, 443}

Configs == [host : Hosts, port : PortSet, maxPort : PortSet \cup {0}]

\* listen(config): the bound port, or 0 when it rejects
listen(c, available) ==
  LET upper == IF c.maxPort = 0 THEN c.port ELSE c.maxPort
      range == {p \in available : c.port <= p /\ p <= upper}
  IN IF range = {} THEN 0
     ELSE CHOOSE p \in range : \A q \in range : p <= q

\* a start that takes the configured port before the allocator answered
startEager ==
  /\ startPc = "created"
  /\ host' = config.host
  /\ port' = config.port
  /\ startPc' = "binding"
  /\ UNCHANGED <<config, free, listening, ready, httpVars, wsVars>>

\* start(), up to its await of listen(this.config)
start ==
  /\ startPc = "created"
  /\ host' = config.host
  /\ startPc' = "binding"
  /\ UNCHANGED <<config, free, port, listening, ready, httpVars, wsVars>>

\* start(), after listen answered a port: _http.listen and emit 'server/ready'
startBound ==
  /\ startPc = "binding"
  /\ listen(config, free) # 0
  /\ port' = listen(config, free)
  /\ listening' = port'
  /\ ready' = TRUE
  /\ startPc' = "started"
  /\ UNCHANGED <<config, free, host, httpVars, wsVars>>

\* start(), when listen rejected: the rejection leaves start at its await
startFails ==
  /\ startPc = "binding"
  /\ listen(config, free) = 0
  /\ startPc' = "failed"
  /\ UNCHANGED <<config, free, host, port, listening, ready, httpVars, wsVars>>

\* stop(): closes the WebSocketServer and the http server
stop ==
  /\ startPc = "started"
  /\ listening' = 0
  /\ startPc' = "stopped"
  /\ UNCHANGED <<config, free, host, port, ready, httpVars, wsVars>>

\* a selfUrl that always writes the port and never https
selfUrlPlain(h, p) ==
  "http://" \o (IF h \in {"0.0.0.0", "::"} THEN "127.0.0.1" ELSE h)
            \o ":" \o ToString(p)

\* get selfUrl()
selfUrl(h, p) ==
  LET wildcard == {"0.0.0.0", "::"}
      name == IF h \in wildcard THEN "127.0.0.1" ELSE h
  IN IF p = 80 THEN "http://" \o name
     ELSE IF p = 443 THEN "https://" \o name
     ELSE "http://" \o name \o ":" \o ToString(p)

(***************************************************************************)
(* Specification of the HTTP dispatch.                                     *)
(***************************************************************************)
InitHttp ==
  /\ routes = <<>>
  /\ httpRoutes = <<>>
  /\ routeHooks = <<>>
  /\ pc = "idle"
  /\ req = NoRequest
  /\ res = Response
  /\ transport = Transport
  /\ reqIdx = 1
  /\ routeSnap = <<>>
  /\ routeIdx = 1
  /\ entered = FALSE
  /\ response = Void
  /\ ops = 0
  /\ log = <<>>
  /\ last = NoLast
  /\ disposed = {}
  /\ disposedAtStart = {}
  /\ view = NoView

InitWs ==
  /\ wsReg = <<>>
  /\ wsRoutes = <<>>
  /\ wsPc = "idle"
  /\ wsUrl = <<>>
  /\ wsTask = <<>>
  /\ decision = "pending"
  /\ socket = "none"
  /\ clients = <<>>
  /\ wsReq = NoRequest
  /\ wsView = <<>>

\* new Server(ctx, config): nothing is bound yet
InitServer(c, available) ==
  /\ config = c
  /\ free = available
  /\ startPc = "created"
  /\ host = NULL
  /\ port = 0
  /\ listening = 0
  /\ ready = FALSE

Init ==
  /\ InitHttp
  /\ InitWs
  /\ InitServer([host |-> "127.0.0.1", port |-> 80, maxPort |-> 0], {})

\* the steps of one dispatch that assign nothing to the Response themselves
Dispatch ==
  \/ \E m \in ReqMethods, u \in Urls : Incoming(m, u)
  \/ RequestNext
  \/ HandlerNext
  \/ HandlerReturn
  \/ HandlerThrow
  \/ RouteNext
  \/ MiddlewareNext
  \/ \E v \in Returned \cup {Void} : MiddlewareReturn(v)
  \/ TerminalDefault
  \/ CopyResponse
  \/ End
  \/ Discard

\* routes come and go; the handlers decide without assigning to the Response
NextHttp ==
  \/ \E m \in Methods \cup {ALL}, p \in Paths : HttpRoute(m, p)
  \/ \E id \in 1..MaxRoutes : dispose(id)
  \/ Dispatch

Next == NextHttp

Spec == Init /\ [][Next]_vars

(***************************************************************************)
(* Specification of the Response: the routes are fixed, the handlers       *)
(* assign status, body and legacyMode.                                     *)
(***************************************************************************)
Registered ==
  { <<>>,
    <<[method |-> "GET", path |-> "/x", lastIndex |-> 0]>>,
    <<[method |-> "GET", path |-> "/x", lastIndex |-> 0],
      [method |-> "POST", path |-> "/x", lastIndex |-> 0]>> }

InitResponse ==
  /\ routes \in Registered
  /\ httpRoutes = [k \in 1..Len(routes) |-> k]
  /\ routeHooks = httpRoutes
  /\ pc = "idle"
  /\ req = NoRequest
  /\ res = Response
  /\ transport = Transport
  /\ reqIdx = 1
  /\ routeSnap = <<>>
  /\ routeIdx = 1
  /\ entered = FALSE
  /\ response = Void
  /\ ops = 0
  /\ log = <<>>
  /\ last = NoLast
  /\ disposed = {}
  /\ disposedAtStart = {}
  /\ view = NoView
  /\ InitWs
  /\ InitServer([host |-> "127.0.0.1", port |-> 80, maxPort |-> 0], {})

NextResponse ==
  \/ \E v \in HandlerStatuses : AssignStatus(v)
  \/ \E v \in Bodies \cup {NULL} : AssignBody(v)
  \/ AssignLegacy
  \/ Dispatch

SpecResponse == InitResponse /\ [][NextResponse]_vars

(***************************************************************************)
(* Specification of the WebSocket upgrade.                                 *)
(***************************************************************************)
NextWs ==
  \/ \E p \in WsPaths, h \in BOOLEAN : WsRoute(p, h)
  \/ \E id \in 1..MaxWsRoutes : wsDispose(id)
  \/ \E u \in WsUrls : shouldHandle(u)
  \/ \E id \in 1..MaxWsRoutes : WsAccept(id)
  \/ \E id \in 1..MaxWsRoutes : WsDecline(id)
  \/ \E id \in 1..MaxWsRoutes : WsThrow(id)
  \/ WsRefuse
  \/ Connection
  \/ Abort
  \/ SocketClose
  \/ WsOver

SpecWs == Init /\ [][NextWs]_vars

(***************************************************************************)
(* Specification of the life of the Server, for every config and every     *)
(* set of ports that can be bound.                                         *)
(***************************************************************************)
InitStart ==
  /\ InitHttp
  /\ InitWs
  /\ \E c \in Configs, available \in SUBSET PortSet : InitServer(c, available)

NextStart ==
  \/ start
  \/ startBound
  \/ startFails
  \/ stop

SpecStart == InitStart /\ [][NextStart]_vars

(***************************************************************************)
(* Specification of the Response and its transport: as SpecResponse, and   *)
(* the connection may be dropped during the dispatch and _end called again *)
(* after it.                                                               *)
(***************************************************************************)
NextTransport ==
  \/ \E v \in HandlerStatuses : AssignStatus(v)
  \/ \E v \in Bodies \cup {NULL} : AssignBody(v)
  \/ AssignLegacy
  \/ Dispatch
  \/ EndAgain
  \/ ConnectionAbort

SpecTransport == InitResponse /\ [][NextTransport]_vars

(***************************************************************************)
(* Specification of the two route lists alone: routes are constructed and  *)
(* disposed, no request is in flight.                                      *)
(***************************************************************************)
NextLists ==
  \/ \E m \in {"GET", ALL} : HttpRoute(m, "/x")
  \/ \E id \in 1..MaxRoutes : dispose(id)
  \/ WsRoute("/x", FALSE)
  \/ \E id \in 1..MaxWsRoutes : wsDispose(id)

SpecLists == Init /\ [][NextLists]_vars

(***************************************************************************)
(* Specification of the params: HttpRoutes and WsRoutes of different       *)
(* patterns that match the same url are registered, and a request and an   *)
(* upgrade are dispatched side by side.                                    *)
(***************************************************************************)
\* no request is in flight
InitRequest ==
  /\ pc = "idle"
  /\ req = NoRequest
  /\ res = Response
  /\ transport = Transport
  /\ reqIdx = 1
  /\ routeSnap = <<>>
  /\ routeIdx = 1
  /\ entered = FALSE
  /\ response = Void
  /\ ops = 0
  /\ log = <<>>
  /\ last = NoLast
  /\ disposed = {}
  /\ disposedAtStart = {}
  /\ view = NoView

InitParams ==
  /\ routes = <<[method |-> ALL, path |-> "/:a", lastIndex |-> 0],
                [method |-> "GET", path |-> "/x", lastIndex |-> 0]>>
  /\ httpRoutes = <<1, 2>>
  /\ routeHooks = <<1, 2>>
  /\ InitRequest
  /\ wsReg = <<[path |-> "/:a", handle |-> TRUE], [path |-> "/x", handle |-> TRUE]>>
  /\ wsRoutes = <<1, 2>>
  /\ wsPc = "idle"
  /\ wsUrl = <<>>
  /\ wsTask = <<"absent", "absent">>
  /\ decision = "pending"
  /\ socket = "none"
  /\ clients = <<{}, {}>>
  /\ wsReq = NoRequest
  /\ wsView = <<>>
  /\ InitServer([host |-> "127.0.0.1", port |-> 80, maxPort |-> 0], {})

NextParams ==
  \/ Dispatch
  \/ \E u \in WsUrls : shouldHandle(u)
  \/ \E id \in 1..MaxWsRoutes : WsAccept(id)
  \/ \E id \in 1..MaxWsRoutes : WsDecline(id)
  \/ \E id \in 1..MaxWsRoutes : WsThrow(id)
  \/ WsRefuse
  \/ Connection
  \/ Abort
  \/ SocketClose
  \/ WsOver

SpecParams == InitParams /\ [][NextParams]_vars

(***************************************************************************)
(* Specification of routes whose path is a RegExp of the caller: the       *)
(* routes are fixed, requests are dispatched one after another.            *)
(***************************************************************************)
RegExpRoutes ==
  { <<[method |-> "GET", path |-> "/^\\/x\\/?$/g", lastIndex |-> 0]>>,
    <<[method |-> ALL, path |-> "/^\\/x\\/?$/g", lastIndex |-> 0],
      [method |-> "GET", path |-> "/x", lastIndex |-> 0]>> }

InitRegExp ==
  /\ routes \in RegExpRoutes
  /\ httpRoutes = [k \in 1..Len(routes) |-> k]
  /\ routeHooks = httpRoutes
  /\ InitRequest
  /\ InitWs
  /\ InitServer([host |-> "127.0.0.1", port |-> 80, maxPort |-> 0], {})

SpecRegExp == InitRegExp /\ [][Dispatch]_vars

(***************************************************************************)
(* Specification of one upgrade after another over fixed WsRoutes, with    *)
(* the scheduling of the event loop: a callback that can go on does, a     *)
(* settled Promise.all is followed by resolve(false), and the              *)
(* WebSocketServer acts on a resolved decision.                            *)
(***************************************************************************)
UpgradeUrls == WsUrls \cup { <<"/", "%">> }

UpgradeRoutes ==
  { <<>>,
    <<[path |-> "/x", handle |-> FALSE]>>,
    <<[path |-> "/:a", handle |-> TRUE]>>,
    <<[path |-> "/:a", handle |-> TRUE], [path |-> "/x", handle |-> TRUE]>>,
    <<[path |-> "/x", handle |-> TRUE], [path |-> "/x", handle |-> FALSE]>> }

InitUpgrade ==
  /\ InitHttp
  /\ wsReg \in UpgradeRoutes
  /\ wsRoutes = [k \in 1..Len(wsReg) |-> k]
  /\ wsPc = "idle"
  /\ wsUrl = <<>>
  /\ wsTask = [k \in 1..Len(wsReg) |-> "absent"]
  /\ decision = "pending"
  /\ socket = "none"
  /\ clients = [k \in 1..Len(wsReg) |-> {}]
  /\ wsReq = NoRequest
  /\ wsView = <<>>
  /\ InitServer([host |-> "127.0.0.1", port |-> 80, maxPort |-> 0], {})

\* route.handle of the route comes to its end, one way or another
Terminates(id) == WsAccept(id) \/ WsDecline(id) \/ WsThrow(id)

NextUpgrade ==
  \/ \E u \in UpgradeUrls : shouldHandle(u)
  \/ \E id \in 1..MaxWsRoutes : WsAccept(id)
  \/ \E id \in 1..MaxWsRoutes : WsDecline(id)
  \/ \E id \in 1..MaxWsRoutes : WsThrow(id)
  \/ WsRefuse
  \/ Connection
  \/ Abort
  \/ SocketClose
  \/ WsOver

FairUpgrade ==
  /\ \A id \in 1..MaxWsRoutes : WF_vars(Terminates(id))
  /\ WF_vars(WsRefuse)
  /\ WF_vars(Connection)
  /\ WF_vars(Abort)

SpecUpgrade == InitUpgrade /\ [][NextUpgrade]_vars /\ FairUpgrade

(***************************************************************************)
(* Properties.                                                             *)
(***************************************************************************)
RECURSIVE QueryAt(_, _)
\* where the query of a request target starts
QueryAt(url, i) ==
  IF i > Len(url) THEN i
  ELSE IF url[i] = "?" THEN i ELSE QueryAt(url, i + 1)

\* the path component of a request target
PathOf(url) == SubSeq(url, 1, QueryAt(url, 1) - 1)

\* does the pattern of a route match the path of the request target
matchesPath(path, url) == exec(pathToRegexp(path), PathOf(url), 1, 1).ok

Happened(e, r) == \E k \in 1..Len(log) : log[k] = Ev(e, r)
Before(e, r, k) == \E j \in 1..(k - 1) : log[j] = Ev(e, r)
Known == Range(routeSnap) \cup Range(httpRoutes)
MethodFits(id) == routes[id].method = ALL \/ routes[id].method = req.method
PathFits(id) == matchesPath(routes[id].path, req.url)
Flushed(status) ==
  transport.heads = 1 /\ transport.ends = 1 /\ transport.status = status
  /\ transport.body = NULL

\* the routes of this dispatch, not disposed, whose pattern matches the path of
\* the request and whose method is the method of the request or the wildcard
Candidates ==
  {id \in Range(routeSnap) \cap Range(httpRoutes) : MethodFits(id) /\ PathFits(id)}

\* C1: registration-order priority.  A route middleware is invoked only after
\* every earlier-registered undisposed route whose pattern matches the request
\* path and whose method fits has called next, and the terminal default runs
\* only after all of them have: the earliest such route is invoked first.
C1_RegistrationOrder ==
  /\ \A k \in 1..Len(log) :
       log[k].e = "invoke" =>
         \A id \in Candidates : id < log[k].r => Before("next", id, k)
  /\ \A k \in 1..Len(log) :
       log[k].e = "default" => \A id \in Candidates : Before("next", id, k)

\* C2: when no request-stage listener short-circuits and no registered route
\* has a pattern matching the request path, the response is flushed with
\* status 404 and no body.
C2_NotFound ==
  (pc = "done" /\ ~Happened("short", 0) /\ \A id \in Known : ~PathFits(id))
    => Flushed(404)

\* C3: when some registered route's pattern matches the request path, the
\* method is not OPTIONS and no registered route of that method or of the
\* wildcard method matches the path, the response is flushed with status 405
\* and no body.
C3_MethodNotAllowed ==
  (/\ pc = "done"
   /\ ~Happened("short", 0)
   /\ req.method # "OPTIONS"
   /\ \E id \in Range(httpRoutes) : PathFits(id)
   /\ \A id \in Known : ~(MethodFits(id) /\ PathFits(id)))
    => Flushed(405)

RECURSIVE AllowOf(_, _)
\* the distinct methods of the routes of a list whose pattern matches the
\* request path, in order of first registration
AllowOf(list, methods) ==
  IF Len(list) = 0 THEN methods
  ELSE AllowOf(Tail(list),
               IF PathFits(list[1]) THEN add(methods, routes[list[1]].method)
               ELSE methods)

\* C4: an OPTIONS request that reaches the terminal default and whose path
\* matches a registered route gets status 204; Allow is "*" exactly when a
\* wildcard-method route matches the path, and otherwise the distinct methods
\* of the path-matching routes in order of first registration, joined by ", ".
C4_Options ==
  (/\ Len(log) > 0
   /\ log[Len(log)].e = "default"
   /\ req.method = "OPTIONS"
   /\ \E id \in Range(httpRoutes) : PathFits(id))
    => /\ res.status = 204
       /\ res.headers.allow =
            IF \E id \in Range(httpRoutes) : PathFits(id) /\ routes[id].method = ALL
            THEN "*" ELSE join(AllowOf(httpRoutes, <<>>))

\* the routes constructed and not disposed, in registration order
Alive == SelectSeq([k \in 1..Len(routes) |-> k], LAMBDA id : id \notin disposed)

\* C5: disposal completeness.  A request that arrives after a route's dispose
\* never invokes that route's middleware; it is answered by a route that is
\* not disposed or by the terminal default; and the status and Allow header
\* the default assigns are those computed from the undisposed routes alone.
C5_DisposalCompleteness ==
  /\ \A k \in 1..Len(log) : log[k].e = "invoke" => log[k].r \notin disposedAtStart
  /\ (pc = "done" /\ ~Happened("short", 0))
       => \/ Happened("default", 0)
          \/ \E id \in 1..Len(routes) :
               id \notin disposedAtStart /\ Happened("return", id)
  /\ (Len(log) > 0 /\ log[Len(log)].e = "default")
       => res = negotiate(Response, routes, Alive, req)

\* a request that a route disposed before its arrival would have taken is over
C5_Witness ==
  /\ pc = "done"
  /\ \E id \in disposedAtStart : accepts(routes[id], req)
  /\ \E id \in Range(httpRoutes) : Happened("invoke", id)

Count(e) == Cardinality({k \in 1..Len(log) : log[k].e = e})

\* C6 as stated: the transport write-completion (writeHead plus end or pipe)
\* happens exactly once for every request whose handlers short-circuit or
\* delegate, and not before the 'server/request' waterfall has finished.
C6_SingleFlush ==
  /\ pc = "done" => transport.heads = 1 /\ transport.ends = 1
  /\ pc \notin {"done"} => transport.heads = 0 /\ transport.ends = 0

\* C6 as amended: _end is called exactly once, after the 'server/request'
\* waterfall has finished; it writes the head and the end exactly once unless
\* a handler has set legacyMode, and then it writes nothing.
C6_SingleFlushUnlessLegacy ==
  /\ pc = "done" =>
       /\ Count("end") = 1
       /\ transport.heads = (IF res.legacyMode THEN 0 ELSE 1)
       /\ transport.ends = transport.heads
  /\ pc \notin {"done"} =>
       Count("end") = 0 /\ transport.heads = 0 /\ transport.ends = 0

\* a route middleware short-circuited with a response and it was flushed once
C6_Witness ==
  /\ pc = "done"
  /\ \E id \in 1..Len(routes) : Happened("return", id)
  /\ response # Void
  /\ ~res.legacyMode
  /\ transport.heads = 1

\* C7 as stated: once a body has been assigned, a second assignment of body
\* during the same request throws and leaves body and status unchanged.
C7_SecondBodyThrows ==
  (last.n >= 1 /\ ~last.late /\ last.pre.body # NULL)
    => last.threw /\ last.post = last.pre

\* C7 as amended: a second assignment of body before the flush is accepted and
\* replaces the first body; an assignment throws only when _end has already
\* consumed a non-null body, and then it leaves body and status unchanged.
C7_SecondBodyReplaces ==
  /\ (last.n >= 1 /\ ~last.late)
       => ~last.threw /\ last.post.body = last.value
  /\ last.threw => last.pre.bodyUsed /\ last.post = last.pre

\* a handler assigned one body and then another in the same dispatch
C7_Witness ==
  /\ last.n = 2
  /\ ~last.late
  /\ last.pre.body \in Bodies
  /\ last.value \in Bodies
  /\ last.value # last.pre.body
  /\ res.body = last.value

\* C8 as stated: after the flush, with a body or with status and headers
\* only, an assignment to body throws and nothing more is written.
C8_LateBodyThrows ==
  (last.late /\ transport.ends = 1)
    => last.threw /\ transport.heads = 1

\* C8 as amended: after a flush that sent a non-null body an assignment to
\* body throws; after a flush of status and headers only it is accepted
\* without effect on the transport; nothing is written again either way.
C8_LateBodyThrowsIfBodySent ==
  last.late =>
    /\ last.threw <=> (transport.ends = 1 /\ transport.body # NULL)
    /\ transport.heads <= 1
    /\ transport.ends <= 1
    /\ last.threw => res = last.pre

\* a body was flushed and a later assignment threw
C8_Witness ==
  /\ last.late
  /\ last.threw
  /\ last.value \in Bodies
  /\ transport.body \in Bodies

\* C9: a Response starts with status 404; a non-null body assigned while no
\* status was explicitly assigned sets status 200; a non-null body assigned
\* after an explicit status leaves the status; a null body never changes it.
C9_StatusPromotion ==
  /\ (pc = "request" /\ Len(log) = 0) => res.status = 404 /\ ~res.hasStatus
  /\ (last.n >= 1 /\ ~last.threw) =>
       /\ (last.value # NULL /\ ~last.pre.hasStatus) => last.post.status = 200
       /\ (last.value # NULL /\ last.pre.hasStatus) =>
            last.post.status = last.pre.status
       /\ last.value = NULL => last.post.status = last.pre.status
       /\ last.post.hasStatus = last.pre.hasStatus

\* a handler assigned a status and then a non-null body
C9_Witness ==
  /\ last.n >= 1
  /\ ~last.threw
  /\ last.value \in Bodies
  /\ last.pre.hasStatus
  /\ last.pre.status = 500
  /\ res.status = 500
  /\ res.body = last.value

\* the WsRoutes the upgrade in flight was offered to and whose pattern matches it
WsMatching == {id \in 1..Len(wsTask) :
                 wsTask[id] # "absent" /\ check(wsReg[id].path, wsUrl).ok}
Declined(id) == wsTask[id] \in {"declined", "threw"}

C11_ClientMembership ==
  \A id \in 1..Len(wsReg) :
    clients[id] = IF socket = "open" /\ wsTask[id] = "accepted"
                  THEN {"socket"} ELSE {}

\* C12: disposal of a WsRoute closes the open sockets upgraded through it,
\* takes the route off server.wsRoutes, and no later upgrade is offered to it.
C12_DisposeCloses ==
  [][/\ \A id \in Range(wsRoutes) \ Range(wsRoutes') :
          (socket = "open" /\ wsTask[id] = "accepted") => socket' # "open"
     /\ (wsPc = "idle" /\ wsPc' = "offered") =>
          \A id \in 1..Len(wsReg) :
            id \notin Range(wsRoutes) => wsTask'[id] = "absent"]_vars

C14_ErrorsPropagate ==
  [][/\ (Len(log') = Len(log) + 1 /\ log'[Len(log')].e = "throw")
          => pc' = "thrown" /\ res' = res /\ transport' = transport
     /\ pc = "thrown" => pc' \in {"thrown", "idle"}]_vars

\* a route middleware assigned a status and a body, then threw
C14_Witness ==
  /\ pc = "thrown"
  /\ Happened("throw", 0)
  /\ \E id \in 1..Len(routes) : Happened("invoke", id)
  /\ res.status = 500
  /\ res.body \in Bodies
  /\ transport = Transport

\* C15: an accept callback that throws before accepting is a decline.  The
\* throw changes neither the decision nor the position of shouldHandle nor
\* another route's callback; every other matching route has been given the
\* upgrade; refuse is decided only when no matching route accepted.
C15_ThrowMeansDecline ==
  /\ [](\A id \in 1..Len(wsTask) :
          wsTask[id] = "threw" =>
            /\ \A j \in WsMatching :
                 wsTask[j] \in {"running", "waiting", "accepted", "declined", "threw"}
            /\ decision = "refuse" => \A j \in WsMatching : Declined(j))
  /\ [][\A id \in 1..Len(wsTask) :
          (wsTask[id] = "running" /\ wsTask'[id] = "threw") =>
            /\ decision' = decision
            /\ wsPc' = wsPc
            /\ \A j \in 1..Len(wsTask) : j # id => wsTask'[j] = wsTask[j]]_vars

\* the callback of the first matching route threw and a later one accepted
C15_Witness ==
  /\ \E i, j \in WsMatching :
       i < j /\ wsTask[i] = "threw" /\ wsReg[j].handle /\ wsTask[j] = "accepted"
  /\ decision = "handle"
  /\ socket = "open"

\* the routes of this dispatch that were not disposed during it and whose
\* listener calls the middleware for this request
Stayed == {id \in Range(routeSnap) : id \notin disposed /\ accepts(routes[id], req)}
Invocations(id) == Cardinality({k \in 1..Len(log) : log[k] = Ev("invoke", id)})

C19_ShortCircuit ==
  /\ \A k \in 1..Len(log) :
       log[k].e = "return" =>
         \A j \in (k + 1)..Len(log) : log[j].e = "end"
  /\ (\E id \in 1..Len(routes) : Happened("return", id)) =>
       /\ pc \in {"copy", "end", "done"}
       /\ res.headers.allow = NULL
       /\ response = Void => res.status = 404 /\ ~res.hasStatus

\* two routes take the request; the first returned nothing and the dispatch
\* is over without the second
C19_Witness ==
  /\ pc = "done"
  /\ Len(routeSnap) = 2
  /\ \A id \in {1, 2} : accepts(routes[id], req)
  /\ Happened("return", 1)
  /\ ~Happened("invoke", 2)
  /\ response = Void

\* C20: a returned response is copied.  When the route stage yields a
\* response, the Response leaves the route-matching listener with its body,
\* its status and each of its headers, whatever status a handler assigned
\* before, and that is what is flushed; when it yields nothing the listener
\* leaves the Response as it is.
C20_ResponseCopied ==
  /\ []((pc = "end" /\ response # Void) =>
          /\ res.body = response.body
          /\ res.status = response.status
          /\ \A h \in DOMAIN response.headers :
               response.headers[h] # NULL => res.headers[h] = response.headers[h])
  /\ []((pc = "done" /\ response # Void /\ ~res.legacyMode) =>
          /\ transport.body = response.body
          /\ transport.status = response.status
          /\ \A h \in DOMAIN response.headers :
               response.headers[h] # NULL => transport.headers[h] = response.headers[h])
  /\ [][(pc = "copy" /\ response = Void) => res' = res]_vars

\* a middleware assigned status 500 and a body, then returned a redirect
C20_Witness ==
  /\ pc = "end"
  /\ response.status = 301
  /\ last.pre.hasStatus
  /\ last.pre.status = 500
  /\ last.pre.body \in Bodies
  /\ res.status = 301
  /\ res.body = NULL
  /\ res.headers.location = "/x/"

\* C16: a failed start leaves nothing listening.  When listen fails for the
\* whole range, start fails, _http.listen is never called, port stays unset
\* and 'server/ready' is never emitted; 'server/ready' is emitted only in the
\* step that binds a port the allocator answered and tells the http server to
\* listen on it.
C16_FailedStart ==
  /\ [](listen(config, free) = 0 =>
          /\ startPc \in {"created", "binding", "failed"}
          /\ listening = 0
          /\ port = 0
          /\ ~ready)
  /\ [](startPc = "failed" => listen(config, free) = 0)
  /\ [](ready => port \in free /\ config.port <= port)
  /\ [][(~ready /\ ready') => port' # 0 /\ listening' = port']_vars

\* the configured port and every port up to maxPort are taken: start failed
C16_Witness ==
  /\ startPc = "failed"
  /\ config.port = 80
  /\ config.maxPort = 81
  /\ free = {443}
  /\ host = config.host

\* the host selfUrl writes
C17_Host == IF host = "0.0.0.0" \/ host = "::" THEN "127.0.0.1" ELSE host

\* C17: self-URL derivation.  For every bound host and port, selfUrl writes
\* 127.0.0.1 for the hosts 0.0.0.0 and :: and any other host unchanged; the
\* url is http://<host> on port 80, https://<host> on port 443 and
\* http://<host>:<port> on every other port.
C17_SelfUrl ==
  startPc = "started" =>
    /\ port = 80 => selfUrl(host, port) = "http://" \o C17_Host
    /\ port = 443 => selfUrl(host, port) = "https://" \o C17_Host
    /\ port \notin {80, 443} =>
         selfUrl(host, port) = "http://" \o C17_Host \o ":" \o ToString(port)

\* the server bound port 443 on the wildcard host ::
C17_Witness ==
  /\ startPc = "started"
  /\ host = "::"
  /\ port = 443
  /\ selfUrl(host, port) = "https://127.0.0.1"

\* C22: Route.check matches the path of the request.  For every route of a
\* dispatch, check answers a match exactly when the pattern matches the path
\* component of the request url, with or without a query string; a match
\* without parameters is a match.
C22_CheckMatchesPath ==
  pc \notin {"idle"} =>
    \A id \in Known :
      check(routes[id].path, req.url).ok <=> matchesPath(routes[id].path, req.url)

\* C27: a throwing handler means no flush.  Once a handler has thrown, _end
\* is not called for the request and nothing is written to its transport.
C27_ThrowMeansNoFlush ==
  Happened("throw", 0) =>
    /\ pc = "thrown"
    /\ Count("end") = 0
    /\ transport.heads = 0
    /\ transport.ends = 0

\* a route middleware assigned a body and threw: the request is left unanswered
C27_Witness ==
  /\ pc = "thrown"
  /\ Happened("throw", 0)
  /\ \E id \in 1..Len(routes) : log[Len(log) - 1] = Ev("invoke", id)
  /\ res.body \in Bodies
  /\ res.status = 200
  /\ transport.heads = 0

\* C28: the fall-through status ignores the method.  When a route that is
\* still registered took the request and delegated with next, a request that
\* is not OPTIONS leaves the terminal default with status 405, and with no
\* handler or returned response changing it, 405 is flushed.
C28_FallThroughStatus ==
  /\ (/\ Len(log) > 0
      /\ log[Len(log)].e = "default"
      /\ req.method # "OPTIONS"
      /\ \E id \in Range(httpRoutes) : Happened("next", id))
       => res.status = 405 /\ res.hasStatus
  /\ (/\ pc = "done"
      /\ Happened("default", 0)
      /\ req.method # "OPTIONS"
      /\ \E id \in Range(httpRoutes) : Happened("next", id))
       => Flushed(405)

\* a GET route took a GET request and delegated: the answer was 405
C28_Witness ==
  /\ pc = "done"
  /\ req.method = "GET"
  /\ \E id \in Range(httpRoutes) :
       routes[id].method = "GET" /\ Happened("next", id)
  /\ transport.status = 405

\* C30: at most one route accepts an upgrade.  For every upgrade at most one
\* WsRoute's accept callback obtains the socket, and at most one route's
\* clients contains it.
C30_SingleAcceptor ==
  /\ Cardinality({id \in 1..Len(wsTask) : wsTask[id] = "accepted"}) <= 1
  /\ Cardinality({id \in 1..Len(wsReg) : "socket" \in clients[id]}) <= 1

\* the latest body assignment was made by the 'server/request' listener
\* registered after the route-matching listener, after the terminal default
AssignedByPost ==
  /\ last.at > 0
  /\ ~last.late
  /\ log[last.at] = Ev("post", 0)
  /\ \E k \in 1..last.at : log[k].e = "default"

\* C29: the negotiated status precedes later request-stage handlers.  When a
\* listener registered after the route-matching listener starts, the status
\* is 404, 405 or 204 and explicitly assigned; a non-null body it assigns
\* without assigning a status leaves that status in place.
C29_NegotiatedFirst ==
  /\ [][(log' = Append(log, Ev("post", 0))) =>
          res'.hasStatus /\ res'.status \in {204, 404, 405}]_vars
  /\ []((AssignedByPost /\ ~last.threw /\ last.value # NULL) =>
          /\ last.pre.hasStatus
          /\ last.post.status = last.pre.status
          /\ last.post.body = last.value)

\* routing fell through with 405 and a later listener assigned a body
C29_Witness ==
  /\ pc = "handler"
  /\ AssignedByPost
  /\ last.value \in Bodies
  /\ res.body = last.value
  /\ res.status = 405

Precedes(list, a, b) ==
  \E i, j \in 1..Len(list) : i < j /\ list[i] = a /\ list[j] = b
SameOrder(old, new) ==
  \A a, b \in Range(old) \cap Range(new) : Precedes(old, a, b) <=> Precedes(new, a, b)
OneLess(old, new) ==
  \E id \in Range(old) : Range(new) = Range(old) \ {id} /\ Len(new) = Len(old) - 1

C25_IdempotentEnd ==
  Count("end") >= 2 => transport.heads <= 1 /\ transport.ends <= 1

\* C26: no flush after abort.  When the connection was dropped while the
\* dispatch was suspended in a handler, nothing is written to its transport
\* when the handlers complete.
C26_NoFlushAfterAbort ==
  transport.destroyed => transport.heads = 0 /\ transport.ends = 0

(***************************************************************************)
(* C21: the params overlay.                                                *)
(***************************************************************************)
\* C21: during a dispatch the shared Request has no params field and does not
\* change, and the object a running middleware or WebSocket handler was called
\* with shows the method and url of the request and the params its own route's
\* pattern extracts from that url
C21_ParamsOverlay ==
  /\ [](/\ DOMAIN req = {"method", "url"}
        /\ DOMAIN wsReq = {"method", "url"}
        /\ pc = "middleware" =>
             view = [method |-> req.method, url |-> req.url,
                     params |-> check(routes[routeSnap[routeIdx]].path, req.url).params]
        /\ \A id \in DOMAIN wsView : wsTask[id] = "running" =>
             wsView[id] = [method |-> "GET", url |-> wsUrl,
                           params |-> check(wsReg[id].path, wsUrl).params])
  /\ [][pc # "idle" /\ pc' # "idle" => req' = req]_vars
  /\ [][wsPc # "idle" /\ wsPc' # "idle" => wsReq' = wsReq]_vars

\* C21 witness: a middleware runs with its own params after a route of another
\* pattern was invoked with other params for the same request, while two
\* WebSocket handlers of different patterns hold different params of one upgrade
C21_Witness ==
  /\ pc = "middleware"
  /\ \E k \in 1..Len(log) :
       /\ log[k].e = "invoke"
       /\ log[k].r # routeSnap[routeIdx]
       /\ check(routes[log[k].r].path, req.url).params # view.params
  /\ wsPc = "offered"
  /\ \E a, b \in DOMAIN wsView :
       /\ wsTask[a] = "running"
       /\ wsTask[b] = "running"
       /\ wsView[a].params # wsView[b].params

(***************************************************************************)
(* C23: Route.check as a pure test.                                        *)
(***************************************************************************)
\* C23: no step changes the state of a route, and when the middleware of a
\* route that is still registered was invoked and delegated, the scan of the
\* terminal default of the same dispatch finds a matching route as well
C23_PureMatching ==
  /\ [](Len(log) > 0 /\ log[Len(log)].e = "default"
          /\ (\E id \in Range(httpRoutes) : Happened("next", id))
        => res.status # 404)
  /\ [][\A id \in DOMAIN routes : routes'[id] = routes[id]]_vars

(***************************************************************************)
(* C31: the resolution of the upgrade decision.                            *)
(***************************************************************************)
\* has some route of the upgrade called next(), or has none a callback
Accepting == \E id \in 1..Len(wsTask) : wsTask[id] \in {"waiting", "accepted"}

\* C31: an upgrade whose callbacks all come to their end has its decision
\* resolved at last; an accepting route makes it handle at once, whatever the
\* other callbacks do; it is refuse only when no route accepted and no callback
\* is still running; and a resolved decision stays as it is until the upgrade
\* is over
C31_DecisionResolved ==
  /\ (wsPc = "offered") ~> (decision # "pending")
  /\ [](Accepting => decision = "handle")
  /\ [](decision = "refuse" =>
          \A id \in 1..Len(wsTask) : wsTask[id] \notin {"running", "waiting", "accepted"})
  /\ [][decision # "pending" /\ wsPc' # "idle" => decision' = decision]_vars
====
